---- MODULE Spec2Model ----
(***************************************************************************)
(* Model of the MealPlannerApp allocation engine (src/app.py): the greedy  *)
(* box-first allocator, the meal / day / month planners with rollback on   *)
(* shortage, and the HTTP endpoint around them.                            *)
(*                                                                         *)
(* Quantities are Python floats.  A float is modelled as a binary floating  *)
(* point number with round-to-nearest-even, its precision scaled down from  *)
(* 53 bits to FloatBits so that values fit TLC's 32-bit integers: a value   *)
(* is held as an integer count of units of 2^-FracBits, and every result of *)
(* an arithmetic operation is rounded to FloatBits significant bits.        *)
(***************************************************************************)
EXTENDS Integers, Sequences, FiniteSets, TLC

VARIABLES
    (* one allocate_category call, studied on its own *)
    ac_pc,          \* "off" | "call" | "ret"
    ac_args,        \* [box_list, main_list, category, needed] as passed in
    ac_ret,         \* [box_list, main_list, used_details, needed_left, shortage_flag]
    (* the data sources (spreadsheets) *)
    src_fault,      \* which load fails, "none" when all three files are readable
    box_sheets,     \* sheet name -> rows of data/senior_box.xlsx
    main_sheet,     \* rows of data/excel_file.xlsx, sheet Inventory
    (* the HTTP endpoint and the running generate_monthly_plan call *)
    pc,             \* position of the request being served
    request,        \* JSON body of the POST being served
    month,          \* argument of generate_monthly_plan
    cyc,            \* cycle month of the running call
    box_original,   \* raw records echoed in the plan
    box_list,       \* running box item list
    main_list,      \* running main item list
    backup_box,     \* deep copy of box_list taken when the day began
    backup_main,    \* deep copy of main_list taken when the day began
    day_num,        \* loop variable of range(1, 31)
    meal_idx,       \* next index into MEAL_ORDER for the current day
    day_meals,      \* meals allocated so far this day
    shortage_for_day,
    day_plans,
    day_shortages,
    outcome,        \* how the generate_monthly_plan call ended: returned or raised
    response,       \* last HTTP response
    prev_request,   \* body of the request answered before the current one
    prev_response   \* its response

vars == <<ac_pc, ac_args, ac_ret, src_fault, box_sheets, main_sheet, pc, request,
          month, cyc, box_original, box_list, main_list, backup_box,
          backup_main, day_num, meal_idx, day_meals, shortage_for_day,
          day_plans, day_shortages, outcome, response, prev_request, prev_response>>

ac_vars == <<ac_pc, ac_args, ac_ret>>

run_vars == <<src_fault, box_sheets, main_sheet, pc, request, month, cyc,
              box_original, box_list, main_list, backup_box, backup_main,
              day_num, meal_idx, day_meals, shortage_for_day, day_plans,
              day_shortages, outcome, response, prev_request, prev_response>>

(***************************************************************************)
(* 1) Category mapping and 2) the 5-4-3-2-1 meal requirements              *)
(***************************************************************************)
Categories == {"fruit_veg", "dairy", "protein", "cereal", "oil"}

\* raw category string -> standard key; "" stands for None (not recognised)
CATEGORY_MAP(raw_cat) ==
    CASE raw_cat = "seasonal & local fruits/vegetables" -> "fruit_veg"
      [] raw_cat = "milk & dairy" -> "dairy"
      [] raw_cat = "meat/fish/eggs/pulses" -> "protein"
      [] raw_cat = "grains" -> "cereal"
      [] raw_cat = "oil" -> "oil"
      [] OTHER -> ""

\* each plan in the insertion order of its dict literal
MEALS ==
    [BreakfastPlan |-> << [cat |-> "fruit_veg", needed |-> 1],
                          [cat |-> "cereal",    needed |-> 1],
                          [cat |-> "dairy",     needed |-> 1],
                          [cat |-> "protein",   needed |-> 0],
                          [cat |-> "oil",       needed |-> 0] >>,
     LunchPlan     |-> << [cat |-> "fruit_veg", needed |-> 2],
                          [cat |-> "cereal",    needed |-> 1],
                          [cat |-> "dairy",     needed |-> 0],
                          [cat |-> "protein",   needed |-> 1],
                          [cat |-> "oil",       needed |-> 1] >>,
     DinnerPlan    |-> << [cat |-> "fruit_veg", needed |-> 2],
                          [cat |-> "cereal",    needed |-> 2],
                          [cat |-> "dairy",     needed |-> 1],
                          [cat |-> "protein",   needed |-> 0],
                          [cat |-> "oil",       needed |-> 2] >>]

MEAL_ORDER == <<"BreakfastPlan", "LunchPlan", "DinnerPlan">>

(***************************************************************************)
(* Floats                                                                  *)
(***************************************************************************)
FloatBits == 9
FracBits == 10

\* the float 1.0
ONE == 2^FracBits

RECURSIVE round_exp(_, _, _)
\* the number of low bits n/d loses when kept to FloatBits significant bits
round_exp(n, d, k) ==
    IF n < (2^(FloatBits + k)) * d THEN k ELSE round_exp(n, d, k + 1)

\* n/d (n >= 0, d > 0) rounded to the nearest float, ties to even
round_ratio(n, d) ==
    LET k == round_exp(n, d, 0)
        m == d * (2^k)
        q == n \div m
        r == n % m
    IN  (IF 2 * r > m \/ (2 * r = m /\ q % 2 = 1) THEN q + 1 ELSE q) * (2^k)

\* the float nearest to the exact value x (in units of 2^-FracBits)
fl(x) == IF x < 0 THEN 0 - round_ratio(0 - x, 1) ELSE round_ratio(x, 1)

fadd(a, b) == fl(a + b)
fsub(a, b) == fl(a - b)
fmul(a, b) ==
    IF (a < 0) = (b < 0)
    THEN round_ratio((IF a < 0 THEN 0 - a ELSE a) * (IF b < 0 THEN 0 - b ELSE b), ONE)
    ELSE 0 - round_ratio((IF a < 0 THEN 0 - a ELSE a) * (IF b < 0 THEN 0 - b ELSE b), ONE)

\* float(n / 100) for a decimal written with two places, n >= 0
float_of_hundredths(n) == round_ratio(n * ONE, 100)

\* float(n) for a whole number
float_of_int(n) == fl(n * ONE)

(***************************************************************************)
(* Spreadsheet cells and strings                                           *)
(***************************************************************************)
\* a cell is a number (here a whole one) or a text that pd.to_numeric cannot read
Num(n) == [num |-> TRUE, val |-> float_of_int(n)]
Txt == [num |-> FALSE, val |-> 0]
\* a cell holding a decimal number, given in hundredths
Dec(n) == [num |-> TRUE, val |-> float_of_hundredths(n)]

\* pd.to_numeric(..., errors="coerce").fillna(default)
to_numeric_fillna(cell, default) == IF cell.num THEN cell.val ELSE default

\* str(x).strip().lower() on the strings the sheets use
strip_lower(str) ==
    CASE str = " Apple " -> "apple"
      [] str = "Apple" -> "apple"
      [] str = "Banana" -> "banana"
      [] str = "Rice" -> "rice"
      [] str = "RICE" -> "rice"
      [] str = "Milk" -> "milk"
      [] str = "Egg" -> "egg"
      [] str = "Olive Oil" -> "olive oil"
      [] str = "Candy" -> "candy"
      [] str = "Mystery" -> "mystery"
      [] str = "Sweets" -> "sweets"
      [] str = "Seasonal & Local Fruits/Vegetables" -> "seasonal & local fruits/vegetables"
      [] str = "Grains" -> "grains"
      [] str = " Milk & Dairy" -> "milk & dairy"
      [] str = "Oil " -> "oil"
      [] OTHER -> str

(***************************************************************************)
(* 3) Food reference                                                       *)
(***************************************************************************)
\* data/DATA SET FOOD CATEGORY.xlsx
ReferenceSheet ==
    << [item_name |-> "apple", item_category |-> "Sweets", servings_per_unit |-> Num(1)],
       [item_name |-> " Apple ", item_category |-> "Seasonal & Local Fruits/Vegetables",
        servings_per_unit |-> Num(2)],
       [item_name |-> "Banana", item_category |-> "seasonal & local fruits/vegetables",
        servings_per_unit |-> Txt],
       [item_name |-> "Rice", item_category |-> "Grains", servings_per_unit |-> Num(1)],
       [item_name |-> "Milk", item_category |-> " Milk & Dairy", servings_per_unit |-> Num(1)],
       [item_name |-> "Egg", item_category |-> "meat/fish/eggs/pulses",
        servings_per_unit |-> Num(1)],
       [item_name |-> "Olive Oil", item_category |-> "Oil ", servings_per_unit |-> Num(1)],
       [item_name |-> "Candy", item_category |-> "sweets", servings_per_unit |-> Num(3)] >>

RECURSIVE build_ref_map(_, _, _)
\* the iterrows loop: a later row of the same name replaces the earlier one
build_ref_map(rows, i, ref_map) ==
    IF i > Len(rows) THEN ref_map
    ELSE LET row == rows[i]
             name == strip_lower(row.item_name)
             entry == [raw_category |-> strip_lower(row.item_category),
                       servings_per_unit |->
                           to_numeric_fillna(row.servings_per_unit, float_of_int(1))]
         IN  build_ref_map(rows, i + 1,
                 [n \in (DOMAIN ref_map) \cup {name} |->
                     IF n = name THEN entry ELSE ref_map[n]])

load_food_reference == build_ref_map(ReferenceSheet, 1, [n \in {} |-> 0])

(***************************************************************************)
(* 4) Senior box and 5) main inventory                                     *)
(***************************************************************************)
\* the shift by one forgotten
get_cycle_month_no_shift(m) == (m % 3) + 1

get_cycle_month(m) == ((m - 1) % 3) + 1

sheet_name_of(cycle_month) ==
    IF cycle_month = 1 THEN "Senior Box First Month"
    ELSE IF cycle_month = 2 THEN "Senior Box Second Month"
    ELSE "Senior Box Third Month"

RECURSIVE build_item_list_keeps_unmapped(_, _, _, _)
\* a row whose raw category is not mapped is kept under that raw category
build_item_list_keeps_unmapped(rows, i, ref_map, acc) ==
    IF i > Len(rows) THEN acc
    ELSE LET row == rows[i]
             item_n == strip_lower(row.item_name)
             qty == to_numeric_fillna(row.quantity, 0)
         IN  IF item_n \notin DOMAIN ref_map
             THEN build_item_list_keeps_unmapped(rows, i + 1, ref_map, acc)
             ELSE build_item_list_keeps_unmapped(rows, i + 1, ref_map,
                      Append(acc, [item_name |-> row.item_name,
                                   category |-> ref_map[item_n].raw_category,
                                   servings_available |->
                                       fmul(qty, ref_map[item_n].servings_per_unit)]))

RECURSIVE build_item_list(_, _, _, _)
\* the iterrows loop shared by both loaders: rows whose name is not in the
\* reference, or whose raw category is not mapped, are skipped
build_item_list(rows, i, ref_map, acc) ==
    IF i > Len(rows) THEN acc
    ELSE LET row == rows[i]
             item_n == strip_lower(row.item_name)
             qty == to_numeric_fillna(row.quantity, 0)
         IN  IF item_n \notin DOMAIN ref_map
             THEN build_item_list(rows, i + 1, ref_map, acc)
             ELSE LET mapped_cat == CATEGORY_MAP(ref_map[item_n].raw_category)
                      su == ref_map[item_n].servings_per_unit
                  IN  IF mapped_cat = ""
                      THEN build_item_list(rows, i + 1, ref_map, acc)
                      ELSE build_item_list(rows, i + 1, ref_map,
                               Append(acc, [item_name |-> row.item_name,
                                            category |-> mapped_cat,
                                            servings_available |-> fmul(qty, su)]))

load_senior_box_data_and_list(rows, ref_map) ==
    [box_original |-> rows, box_list |-> build_item_list(rows, 1, ref_map, <<>>)]

\* a list kept from the previous call and used again
load_main_inventory_items_cached(rows, ref_map) ==
    IF main_list # <<>> THEN main_list ELSE build_item_list(rows, 1, ref_map, <<>>)

load_main_inventory_items(rows, ref_map) == build_item_list(rows, 1, ref_map, <<>>)

(***************************************************************************)
(* 6) Allocation logic                                                     *)
(***************************************************************************)
usage_record(item, category, servings_used, src) ==
    [item_name |-> item.item_name, category |-> category,
     servings_used |-> servings_used, from |-> src]

RECURSIVE scan_items_overdraw(_, _, _, _, _, _)
\* the check of what the item holds forgotten: the first item of the category
\* gives all that is needed
scan_items_overdraw(items, i, category, needed_left, used_details, src) ==
    IF i > Len(items)
    THEN [items |-> items, needed_left |-> needed_left, used_details |-> used_details]
    ELSE IF items[i].category = category /\ needed_left > 0
         THEN [items |-> [items EXCEPT ![i].servings_available = fsub(@, needed_left)],
               needed_left |-> 0,
               used_details |->
                   Append(used_details, usage_record(items[i], category, needed_left, src))]
         ELSE scan_items_overdraw(items, i + 1, category, needed_left, used_details, src)

RECURSIVE scan_items_whole_only(_, _, _, _, _, _)
\* best fit in place of first fit: an item that cannot cover needed_left alone
\* is passed over
scan_items_whole_only(items, i, category, needed_left, used_details, src) ==
    IF i > Len(items)
    THEN [items |-> items, needed_left |-> needed_left, used_details |-> used_details]
    ELSE IF items[i].category = category /\ needed_left > 0
            /\ items[i].servings_available >= needed_left
         THEN [items |-> [items EXCEPT ![i].servings_available = fsub(@, needed_left)],
               needed_left |-> 0,
               used_details |->
                   Append(used_details, usage_record(items[i], category, needed_left, src))]
         ELSE scan_items_whole_only(items, i + 1, category, needed_left, used_details, src)

\* One "for item in ..." loop of allocate_category, from position i on.
\* Returns the list as mutated, the records appended and needed_left.
RECURSIVE scan_items(_, _, _, _, _, _)
scan_items(items, i, category, needed_left, used_details, src) ==
    IF i > Len(items)
    THEN [items |-> items, needed_left |-> needed_left, used_details |-> used_details]
    ELSE LET item == items[i] IN
         IF item.category = category /\ needed_left > 0
         THEN IF item.servings_available >= needed_left
              THEN \* take needed_left from this item and break
                   [items |-> [items EXCEPT ![i].servings_available = fsub(@, needed_left)],
                    needed_left |-> 0,
                    used_details |->
                        Append(used_details, usage_record(item, category, needed_left, src))]
              ELSE IF item.servings_available > 0
                   THEN \* take all of it and go on
                        scan_items([items EXCEPT ![i].servings_available = 0], i + 1,
                                   category, fsub(needed_left, item.servings_available),
                                   Append(used_details,
                                          usage_record(item, category,
                                                       item.servings_available, src)),
                                   src)
                   ELSE scan_items(items, i + 1, category, needed_left, used_details, src)
         ELSE scan_items(items, i + 1, category, needed_left, used_details, src)

\* allocate_category with the two sources scanned in the wrong order
allocate_category_main_first(box, main, category, needed) ==
    LET m == scan_items(main, 1, category, float_of_int(needed), <<>>, "main")
        b == IF m.needed_left > 0
             THEN scan_items(box, 1, category, m.needed_left, m.used_details, "box")
             ELSE [items |-> box, needed_left |-> m.needed_left,
                   used_details |-> m.used_details]
    IN  [box_list |-> b.items, main_list |-> m.items,
         used_details |-> b.used_details, needed_left |-> b.needed_left,
         shortage_flag |-> (b.needed_left > 0)]

allocate_category(box, main, category, needed) ==
    LET b == scan_items(box, 1, category, float_of_int(needed), <<>>, "box")
        m == IF b.needed_left > 0
             THEN scan_items(main, 1, category, b.needed_left, b.used_details, "main")
             ELSE [items |-> main, needed_left |-> b.needed_left,
                   used_details |-> b.used_details]
    IN  [box_list |-> b.items, main_list |-> m.items,
         used_details |-> m.used_details, needed_left |-> m.needed_left,
         shortage_flag |-> (m.needed_left > 0)]

RECURSIVE allocate_meal_from_stops(_, _, _, _, _, _)
\* the loop left at the first category that is short
allocate_meal_from_stops(box, main, meal_plan, k, used_items, shortage_any) ==
    IF k > Len(meal_plan) \/ shortage_any
    THEN [box_list |-> box, main_list |-> main, used_items |-> used_items,
          shortage_any |-> shortage_any]
    ELSE IF meal_plan[k].needed <= 0
         THEN allocate_meal_from_stops(box, main, meal_plan, k + 1, used_items,
                                       shortage_any)
         ELSE LET r == allocate_category(box, main, meal_plan[k].cat, meal_plan[k].needed)
              IN  allocate_meal_from_stops(r.box_list, r.main_list, meal_plan, k + 1,
                                           used_items \o r.used_details,
                                           shortage_any \/ r.shortage_flag)

RECURSIVE allocate_meal_from(_, _, _, _, _, _)
\* the loop of allocate_meal over meal_plan.items(), from position k on
allocate_meal_from(box, main, meal_plan, k, used_items, shortage_any) ==
    IF k > Len(meal_plan)
    THEN [box_list |-> box, main_list |-> main, used_items |-> used_items,
          shortage_any |-> shortage_any]
    ELSE IF meal_plan[k].needed <= 0
         THEN allocate_meal_from(box, main, meal_plan, k + 1, used_items, shortage_any)
         ELSE LET r == allocate_category(box, main, meal_plan[k].cat, meal_plan[k].needed)
              IN  allocate_meal_from(r.box_list, r.main_list, meal_plan, k + 1,
                                     used_items \o r.used_details,
                                     shortage_any \/ r.shortage_flag)

allocate_meal(box, main, meal_plan) ==
    allocate_meal_from(box, main, meal_plan, 1, <<>>, FALSE)

(***************************************************************************)
(* 7) Summaries                                                            *)
(***************************************************************************)
RECURSIVE all_used_items(_)
\* the used_items of the day's meals, in the order the two loops visit them
all_used_items(meals) ==
    IF meals = <<>> THEN <<>>
    ELSE Head(meals).used_items \o all_used_items(Tail(meals))

\* the grouping by key forgotten: one entry per record
add_usage_ungrouped(usage_map, used) ==
    Append(usage_map, [item_name |-> used.item_name, category |-> used.category,
                       servings_used |-> used.servings_used])

\* usage_map[key] += servings_used on a dict that keeps insertion order
add_usage(usage_map, used) ==
    IF \E i \in 1..Len(usage_map) :
          usage_map[i].item_name = used.item_name /\ usage_map[i].category = used.category
    THEN [i \in 1..Len(usage_map) |->
             IF usage_map[i].item_name = used.item_name
                /\ usage_map[i].category = used.category
             THEN [usage_map[i] EXCEPT !.servings_used = fadd(@, used.servings_used)]
             ELSE usage_map[i]]
    ELSE Append(usage_map, [item_name |-> used.item_name, category |-> used.category,
                            servings_used |-> used.servings_used])

RECURSIVE usage_of(_, _, _)
usage_of(records, from_box, usage_map) ==
    IF records = <<>> THEN usage_map
    ELSE usage_of(Tail(records), from_box,
                  IF (Head(records).from = "box") = from_box
                  THEN add_usage(usage_map, Head(records))
                  ELSE usage_map)

summarize_day_usage(meals) ==
    [day_box_usage |-> usage_of(all_used_items(meals), TRUE, <<>>),
     day_main_usage |-> usage_of(all_used_items(meals), FALSE, <<>>)]

(***************************************************************************)
(* allocate_category on its own: every call on small item lists            *)
(***************************************************************************)
MaxBox == 2
MaxMain == 2

\* servings of the items of the category asked for: -1, 0, 0.2, 0.6, 1, 2
ServingChoices == {float_of_int(-1), float_of_int(0), float_of_hundredths(20),
                   float_of_hundredths(60), float_of_int(1), float_of_int(2)}
\* items of another category are passed over whatever they hold
ItemKinds == [c : {"fruit_veg"}, s : ServingChoices]
                 \cup [c : {"dairy"}, s : {float_of_int(1)}]
NeededChoices == {0, 1, 2, 3}
BoxItemNames == <<"Apple", "Banana", "Carrot", "Dates">>
MainItemNames == <<"Apple", "Eggplant", "Fig", "Grapes">>

ItemLists(names, n) ==
    UNION { { [i \in 1..k |-> [item_name |-> names[i], category |-> f[i].c,
                               servings_available |-> f[i].s]] :
              f \in [1..k -> ItemKinds] } :
            k \in 0..n }

NoArgs == [box_list |-> <<>>, main_list |-> <<>>, category |-> "", needed |-> 0]
NoRet == [box_list |-> <<>>, main_list |-> <<>>, used_details |-> <<>>,
          needed_left |-> 0, shortage_flag |-> FALSE]

\* the endpoint is not running
RunOff ==
    /\ src_fault = "none" /\ box_sheets = <<>> /\ main_sheet = <<>>
    /\ pc = "off" /\ request = {} /\ month = [num |-> TRUE, val |-> 0] /\ cyc = 0
    /\ box_original = <<>> /\ box_list = <<>> /\ main_list = <<>>
    /\ backup_box = <<>> /\ backup_main = <<>>
    /\ day_num = 0 /\ meal_idx = 0 /\ day_meals = <<>>
    /\ shortage_for_day = FALSE /\ day_plans = <<>> /\ day_shortages = <<>>
    /\ outcome = [kind |-> "none"] /\ response = [status |-> 0]
    /\ prev_request = {} /\ prev_response = [status |-> 0]

InitAlloc ==
    /\ ac_pc = "call"
    /\ ac_args \in [box_list : ItemLists(BoxItemNames, MaxBox),
                    main_list : ItemLists(MainItemNames, MaxMain),
                    category : {"fruit_veg"},
                    needed : NeededChoices]
    /\ ac_ret = NoRet
    /\ RunOff

CallAllocateCategory ==
    /\ ac_pc = "call"
    /\ ac_ret' = allocate_category(ac_args.box_list, ac_args.main_list,
                                   ac_args.category, ac_args.needed)
    /\ ac_pc' = "ret"
    /\ UNCHANGED <<ac_args, run_vars>>

NextAlloc == CallAllocateCategory

SpecAlloc == InitAlloc /\ [][NextAlloc]_vars

(***************************************************************************)
(* The data sources a deployment can have                                  *)
(***************************************************************************)
MaxMonth == 3

\* sheet "Senior Box First Month"
FirstMonthSheet(q_apple) ==
    << [item_name |-> " Apple ", quantity |-> Num(q_apple)],
       [item_name |-> "Banana", quantity |-> Num(1)],
       [item_name |-> "Candy", quantity |-> Num(5)],
       [item_name |-> "Rice", quantity |-> Num(3)],
       [item_name |-> "Milk", quantity |-> Txt],
       [item_name |-> "Mystery", quantity |-> Num(2)],
       [item_name |-> "Olive Oil", quantity |-> Num(1)] >>

\* sheet "Senior Box Second Month"
SecondMonthSheet ==
    << [item_name |-> "Egg", quantity |-> Num(1)],
       [item_name |-> "Milk", quantity |-> Num(3)],
       [item_name |-> "Banana", quantity |-> Num(2)],
       [item_name |-> "Banana", quantity |-> Num(4)] >>

\* sheet "Senior Box Third Month", left empty
ThirdMonthSheet == << >>

\* sheet "Senior Box Third Month" with quantities weighed in tenths
ThirdMonthSheetDecimal ==
    << [item_name |-> " Apple ", quantity |-> Dec(20)],
       [item_name |-> " Apple ", quantity |-> Dec(190)],
       [item_name |-> "Banana", quantity |-> Dec(30)] >>

\* sheet "Inventory"
InventorySheet(q_apple, q_egg, q_oil) ==
    << [item_name |-> "Apple", quantity |-> Num(q_apple)],
       [item_name |-> "Banana", quantity |-> Num(8)],
       [item_name |-> "Rice", quantity |-> Num(5)],
       [item_name |-> "RICE", quantity |-> Num(150)],
       [item_name |-> "Mystery", quantity |-> Num(9)],
       [item_name |-> "Milk", quantity |-> Num(70)],
       [item_name |-> "Egg", quantity |-> Num(q_egg)],
       [item_name |-> "Olive Oil", quantity |-> Num(q_oil)] >>

Faults == {"ref_missing", "ref_unreadable", "ref_column",
           "box_missing", "box_sheet_3", "box_column",
           "main_missing", "main_sheet", "main_column"}

SeniorBox(q_apple, third_month) ==
    [n \in {"Senior Box First Month", "Senior Box Second Month", "Senior Box Third Month"} |->
        CASE n = "Senior Box First Month" -> FirstMonthSheet(q_apple)
          [] n = "Senior Box Second Month" -> SecondMonthSheet
          [] n = "Senior Box Third Month" -> third_month]

\* data/excel_file.xlsx as four deployments keep it: well stocked, and short
\* of fruit, of eggs, of oil
InventoryFiles == {InventorySheet(100, 40, 100), InventorySheet(1, 40, 100),
                   InventorySheet(1, 0, 100), InventorySheet(100, 40, 2)}

\* data/senior_box.xlsx as two deployments keep it: one with a negative
\* quantity entered and an empty third sheet, one with decimal quantities
SeniorBoxFiles == {SeniorBox(-1, ThirdMonthSheet), SeniorBox(3, ThirdMonthSheetDecimal)}

\* the exception the loads of generate_monthly_plan raise, "" when they succeed
load_error(fault, sheet_name) ==
    CASE fault = "ref_missing" -> "Cannot find 'data/DATA SET FOOD CATEGORY.xlsx'."
      [] fault = "ref_unreadable" ->
            "Error reading 'data/DATA SET FOOD CATEGORY.xlsx'-check sheet name, columns, etc."
      [] fault = "ref_column" ->
            "Column 'servings_per_unit' missing in 'data/DATA SET FOOD CATEGORY.xlsx'."
      [] fault = "box_missing" -> "Cannot find 'data/senior_box.xlsx'."
      [] fault = "box_sheet_3" /\ sheet_name = "Senior Box Third Month" ->
            "Worksheet '" \o sheet_name \o "' not found in 'data/senior_box.xlsx'."
      [] fault = "box_column" ->
            "'item_name' or 'quantity' missing in sheet '" \o sheet_name
                \o "' of 'data/senior_box.xlsx'."
      [] fault = "main_missing" -> "Cannot find 'data/excel_file.xlsx'."
      [] fault = "main_sheet" -> "Worksheet 'Inventory' not found in 'data/excel_file.xlsx'."
      [] fault = "main_column" ->
            "Column 'quantity_in_stock' missing in 'Inventory' of 'data/excel_file.xlsx'."
      [] OTHER -> ""

\* the reference load comes before get_cycle_month
fails_before_cycle(fault) == fault \in {"ref_missing", "ref_unreadable", "ref_column"}

(***************************************************************************)
(* 8) generate_monthly_plan and 9) the Flask route                         *)
(***************************************************************************)
Months == 0..MaxMonth

\* JSON bodies: no "month" key, an integer month, a month that is a string
Requests ==
    {{}} \cup {{<<"month", [num |-> TRUE, val |-> m]>>} : m \in Months}
         \cup {{<<"month", Txt>>}}

\* data.get("month", 1)
get_month(data) ==
    IF \E kv \in data : kv[1] = "month"
    THEN (CHOOSE kv \in data : kv[1] = "month")[2]
    ELSE [num |-> TRUE, val |-> 1]

NoOutcome == [kind |-> "none"]
NoResponse == [status |-> 0]

AllocOff == ac_pc = "off" /\ ac_args = NoArgs /\ ac_ret = NoRet

Init ==
    /\ AllocOff
    /\ \/ /\ src_fault = "none"
          /\ box_sheets \in SeniorBoxFiles
          /\ main_sheet \in InventoryFiles
       \/ /\ src_fault \in Faults
          /\ box_sheets = SeniorBox(3, ThirdMonthSheet)
          /\ main_sheet = InventorySheet(100, 40, 100)
    /\ pc = "idle" /\ request = {} /\ month = [num |-> TRUE, val |-> 0] /\ cyc = 0
    /\ box_original = <<>> /\ box_list = <<>> /\ main_list = <<>>
    /\ backup_box = <<>> /\ backup_main = <<>>
    /\ day_num = 0 /\ meal_idx = 0 /\ day_meals = <<>>
    /\ shortage_for_day = FALSE /\ day_plans = <<>> /\ day_shortages = <<>>
    /\ outcome = NoOutcome /\ response = NoResponse
    /\ prev_request = {} /\ prev_response = NoResponse

src_vars == <<src_fault, box_sheets, main_sheet>>
day_vars == <<day_num, meal_idx, day_meals, shortage_for_day, day_plans, day_shortages>>
list_vars == <<box_original, box_list, main_list, backup_box, backup_main>>

\* POST /api/generate_monthly_plan arrives: the body is read and the call starts
ReceiveRequest ==
    /\ pc = "idle"
    /\ \E data \in Requests :
          /\ request' = data
          /\ month' = get_month(data)
    /\ prev_request' = request
    /\ prev_response' = response
    /\ outcome' = NoOutcome
    /\ pc' = "load"
    /\ UNCHANGED <<ac_vars, src_vars, cyc, list_vars, day_vars, response>>

\* generate_monthly_plan up to the day loop: reference, cycle, box, main
LoadSources ==
    /\ pc = "load"
    /\ IF fails_before_cycle(src_fault)
       THEN /\ outcome' = [kind |-> "raised", message |-> load_error(src_fault, "")]
            /\ pc' = "respond"
            /\ UNCHANGED <<cyc, list_vars, day_vars>>
       ELSE IF ~month.num
       THEN /\ outcome' = [kind |-> "raised",
                           message |-> "unsupported operand type(s) for -: 'str' and 'int'"]
            /\ pc' = "respond"
            /\ UNCHANGED <<cyc, list_vars, day_vars>>
       ELSE LET c == get_cycle_month(month.val)
                ref_map == load_food_reference
                sheet_name == sheet_name_of(c)
                box == load_senior_box_data_and_list(box_sheets[sheet_name], ref_map)
            IN  /\ cyc' = c
                /\ IF load_error(src_fault, sheet_name) # ""
                   THEN /\ outcome' = [kind |-> "raised",
                                       message |-> load_error(src_fault, sheet_name)]
                        /\ pc' = "respond"
                        /\ UNCHANGED <<list_vars, day_vars>>
                   ELSE /\ box_original' = box.box_original
                        /\ box_list' = box.box_list
                        /\ main_list' = load_main_inventory_items(main_sheet, ref_map)
                        /\ day_plans' = <<>>
                        /\ day_shortages' = <<>>
                        /\ day_num' = 1
                        /\ pc' = "day"
                        /\ UNCHANGED <<outcome, backup_box, backup_main, meal_idx,
                                       day_meals, shortage_for_day>>
    /\ UNCHANGED <<ac_vars, src_vars, request, month, response, prev_request,
                   prev_response>>

\* top of the loop body: the two deep copies
BeginDay ==
    /\ pc = "day"
    /\ backup_box' = box_list
    /\ backup_main' = main_list
    /\ day_meals' = <<>>
    /\ shortage_for_day' = FALSE
    /\ meal_idx' = 1
    /\ pc' = "meal"
    /\ UNCHANGED <<ac_vars, src_vars, request, month, cyc, box_original, box_list,
                   main_list, day_num, day_plans, day_shortages, outcome, response,
                   prev_request, prev_response>>

meal_time_of(meal_key) ==
    CASE meal_key = "BreakfastPlan" -> "Breakfast"
      [] meal_key = "LunchPlan" -> "Lunch"
      [] meal_key = "DinnerPlan" -> "Dinner"

\* the "break" forgotten: the later meals of the day are allocated all the same
pc_after_meal_no_break(short, idx) == IF idx = Len(MEAL_ORDER) THEN "day_end" ELSE "meal"

\* "if shortage_any: ... break", else the loop goes on to the next meal_key
pc_after_meal(short, idx) ==
    IF short \/ idx = Len(MEAL_ORDER) THEN "day_end" ELSE "meal"

\* one iteration of "for meal_key in MEAL_ORDER", with its break
AllocateMeal ==
    /\ pc = "meal"
    /\ LET meal_key == MEAL_ORDER[meal_idx]
           meal_req == MEALS[meal_key]
           r == allocate_meal(box_list, main_list, meal_req)
       IN  /\ box_list' = r.box_list
           /\ main_list' = r.main_list
           /\ day_meals' = Append(day_meals,
                                  [meal_time |-> meal_time_of(meal_key),
                                   meal_plan_requirements |-> meal_req,
                                   used_items |-> r.used_items])
           /\ shortage_for_day' = (shortage_for_day \/ r.shortage_any)
           /\ meal_idx' = meal_idx + 1
           /\ pc' = pc_after_meal(r.shortage_any, meal_idx)
    /\ UNCHANGED <<ac_vars, src_vars, request, month, cyc, box_original, backup_box,
                   backup_main, day_num, day_plans, day_shortages, outcome, response,
                   prev_request, prev_response>>

LastDay == 30

shortage_entry(d) ==
    [day_number |-> d,
     shortages |-> <<"Not enough box+main inventory to fulfill 5-4-3-2-1 plan">>]

\* the rollback forgotten: the day's partial consumption is kept
list_after_day_no_restore(short, current, backup) == current

\* the inventory replenished after a shortage day: the list is built anew
\* from its sheet
list_after_day_replenished(short, current, backup) ==
    IF ~short THEN current
    ELSE IF backup = backup_main
         THEN load_main_inventory_items(main_sheet, load_food_reference)
         ELSE load_senior_box_data_and_list(box_sheets[sheet_name_of(cyc)],
                                            load_food_reference).box_list

\* "box_list = backup_box" / "main_list = backup_main" on a shortage day
list_after_day(short, current, backup) == IF short THEN backup ELSE current

\* day_shortages after the day
shortages_after_day(short, d, shortages) ==
    IF short THEN Append(shortages, shortage_entry(d)) ELSE shortages

\* "day_meals = []" forgotten: a shortage day is emitted with its partial meals
day_info_of_keeps_meals(short, d, meals) == [day_number |-> d, meals |-> meals]

\* the day_info dict appended to day_plans
day_info_of(short, d, meals) ==
    IF short
    THEN [day_number |-> d, meals |-> <<>>]
    ELSE [day_number |-> d, meals |-> meals,
          day_box_usage |-> summarize_day_usage(meals).day_box_usage,
          day_main_usage |-> summarize_day_usage(meals).day_main_usage]

\* the month given up at the first shortage day
pc_after_day_stop(short, d) == IF d = LastDay \/ short THEN "return" ELSE "day"

\* range(1, 31) goes on whatever the day was
pc_after_day(short, d) == IF d = LastDay THEN "return" ELSE "day"

\* the rest of the loop body: roll back or summarise, emit the day
EndDay ==
    /\ pc = "day_end"
    /\ box_list' = list_after_day(shortage_for_day, box_list, backup_box)
    /\ main_list' = list_after_day(shortage_for_day, main_list, backup_main)
    /\ day_shortages' = shortages_after_day(shortage_for_day, day_num, day_shortages)
    /\ day_meals' = IF shortage_for_day THEN <<>> ELSE day_meals
    /\ day_plans' = Append(day_plans, day_info_of(shortage_for_day, day_num, day_meals))
    /\ day_num' = day_num + 1
    /\ pc' = pc_after_day(shortage_for_day, day_num)
    /\ UNCHANGED <<ac_vars, src_vars, request, month, cyc, box_original, backup_box,
                   backup_main, meal_idx, shortage_for_day, outcome, response,
                   prev_request, prev_response>>

\* the report emitted without looking at day_shortages
all_shortages_of_always(shortages) ==
    <<[type |-> "meal_plan_shortage", details |-> shortages]>>

all_shortages_of(shortages) ==
    IF shortages # <<>>
    THEN <<[type |-> "meal_plan_shortage", details |-> shortages]>>
    ELSE <<>>

\* after the loop: all_shortages and the returned dict
ReturnPlan ==
    /\ pc = "return"
    /\ outcome' =
          [kind |-> "returned",
           value |-> [month_requested |-> month.val,
                      cycle_month |-> cyc,
                      senior_box_items_for_month |-> box_original,
                      final_daily_plan |-> day_plans,
                      all_shortages |-> all_shortages_of(day_shortages)]]
    /\ pc' = "respond"
    /\ UNCHANGED <<ac_vars, src_vars, request, month, cyc, list_vars, day_vars,
                   response, prev_request, prev_response>>

\* the failure answered as a success
endpoint_response_always_ok(result) ==
    IF result.kind = "returned"
    THEN [status |-> 200, body |-> result.value]
    ELSE [status |-> 200, body |-> [error |-> result.message]]

\* jsonify(plan_result), 200 / jsonify({"error": str(e)}), 500
endpoint_response(result) ==
    IF result.kind = "returned"
    THEN [status |-> 200, body |-> result.value]
    ELSE [status |-> 500, body |-> [error |-> result.message]]

\* the try/except of the route
Respond ==
    /\ pc = "respond"
    /\ response' = endpoint_response(outcome)
    /\ pc' = "idle"
    /\ UNCHANGED <<ac_vars, src_vars, request, month, cyc, list_vars, day_vars,
                   outcome, prev_request, prev_response>>

Next ==
    \/ ReceiveRequest
    \/ LoadSources
    \/ BeginDay
    \/ AllocateMeal
    \/ EndDay
    \/ ReturnPlan
    \/ Respond

Spec == Init /\ [][Next]_vars

(***************************************************************************)
(* Helpers for stating properties                                          *)
(***************************************************************************)
RECURSIVE SumServings(_, _)
\* exact total servings_available of the items of one category in a list
SumServings(items, category) ==
    IF items = <<>> THEN 0
    ELSE (IF Head(items).category = category THEN Head(items).servings_available ELSE 0)
         + SumServings(Tail(items), category)

RECURSIVE SumUsed(_)
SumUsed(used) ==
    IF used = <<>> THEN 0 ELSE Head(used).servings_used + SumUsed(Tail(used))

TotalAvailable(args) ==
    SumServings(args.box_list, args.category) + SumServings(args.main_list, args.category)

RECURSIVE FloatSumServings(_, _, _)
\* the same total as Python's sum() computes it, left to right in floats
FloatSumServings(items, category, acc) ==
    IF items = <<>> THEN acc
    ELSE FloatSumServings(Tail(items), category,
             IF Head(items).category = category
             THEN fadd(acc, Head(items).servings_available) ELSE acc)

FloatTotalAvailable(args) ==
    FloatSumServings(args.main_list, args.category,
                     FloatSumServings(args.box_list, args.category, 0))

RECURSIVE FloatSumUsed(_, _)
FloatSumUsed(used, acc) ==
    IF used = <<>> THEN acc
    ELSE FloatSumUsed(Tail(used), fadd(acc, Head(used).servings_used))

(* C1: whenever needed is at most the total servings of the category over box
   and main, allocate_category reports no shortage (shortfall 0) and the
   servings_used of its records sum to exactly needed.  The sums are taken
   the way that favours the claim: the total must cover needed both exactly
   and as a float sum, and the used servings are summed in floats. *)
C1_SufficientAllocatesExactly ==
    (ac_pc = "ret"
       /\ ac_args.needed * ONE <= TotalAvailable(ac_args)
       /\ ac_args.needed * ONE <= FloatTotalAvailable(ac_args))
        => /\ ac_ret.shortage_flag = FALSE
           /\ ac_ret.needed_left = 0
           /\ FloatSumUsed(ac_ret.used_details, 0) = ac_args.needed * ONE

(* C2: whenever needed exceeds the total servings of the category over box and
   main, allocate_category reports a shortage, the shortfall is needed minus
   that total, and every box and main item of the category is left at 0. *)
C2_ShortConsumesAll ==
    (ac_pc = "ret" /\ ac_args.needed * ONE > TotalAvailable(ac_args))
        => /\ ac_ret.shortage_flag = TRUE
           /\ ac_ret.needed_left = ac_args.needed * ONE - TotalAvailable(ac_args)
           /\ \A i \in 1..Len(ac_ret.box_list) :
                ac_ret.box_list[i].category = ac_args.category
                    => ac_ret.box_list[i].servings_available = 0
           /\ \A i \in 1..Len(ac_ret.main_list) :
                ac_ret.main_list[i].category = ac_args.category
                    => ac_ret.main_list[i].servings_available = 0

UsedFrom(used, src) == \E i \in 1..Len(used) : used[i].from = src

(* C3: a main item is consumed from only once no box item of the requested
   category is left with servings available, and in the returned records all
   "box" records come before all "main" records. *)
C3_BoxBeforeMain ==
    ac_pc = "ret" =>
        /\ (UsedFrom(ac_ret.used_details, "main") \/ ac_ret.main_list # ac_args.main_list)
              => \A i \in 1..Len(ac_ret.box_list) :
                    ac_ret.box_list[i].category = ac_args.category
                        => ~(ac_ret.box_list[i].servings_available > 0)
        /\ \A i, j \in 1..Len(ac_ret.used_details) :
              (ac_ret.used_details[i].from = "main" /\ ac_ret.used_details[j].from = "box")
                  => j < i

\* an insufficient box item placed before a sufficient-looking one, both
\* drained, and the rest taken from main
C3_Witness ==
    /\ ac_pc = "ret"
    /\ Len(ac_args.box_list) = 2
    /\ ac_args.box_list[1].category = ac_args.category
    /\ ac_args.box_list[2].category = ac_args.category
    /\ ac_args.box_list[1].servings_available = ONE
    /\ ac_args.box_list[2].servings_available = ONE
    /\ UsedFrom(ac_ret.used_details, "box")
    /\ UsedFrom(ac_ret.used_details, "main")

\* the positions of a list whose item a record of the given source names
\* (the names of a list are distinct here)
Consumed(items, used, src) ==
    {i \in 1..Len(items) :
        \E k \in 1..Len(used) : used[k].from = src /\ used[k].item_name = items[i].item_name}

\* the position in the list of the item a record names
PositionOf(items, record) == CHOOSE i \in 1..Len(items) : items[i].item_name = record.item_name

\* first fit within one source, given its list before and after the call
FirstFitIn(before, after, used, src, category) ==
    LET cons == Consumed(before, used, src)
        recs == SelectSeq(used, LAMBDA u : u.from = src)
    IN  /\ Len(after) = Len(before)
        \* one record per consumed item, in list order
        /\ \A k \in 1..(Len(recs) - 1) :
              PositionOf(before, recs[k]) < PositionOf(before, recs[k + 1])
        \* all consumed items but the last are left at exactly 0
        /\ \A i \in cons : (\E j \in cons : j > i) => after[i].servings_available = 0
        \* no item with servings to give is passed over
        /\ \A i \in cons : \A j \in 1..(i - 1) :
              before[j].category = category => ~(after[j].servings_available > 0)
        \* an item no record names is not modified
        /\ \A i \in (1..Len(before)) \ cons : after[i] = before[i]
        /\ \A i \in cons : after[i].item_name = before[i].item_name
                              /\ after[i].category = before[i].category

(* C16: allocate_category is first-fit in list order within each source: the
   items are consumed in list order without passing over one that has
   servings to give, every consumed item but the last of its source is left
   at exactly 0, at most one item of the call is left partially consumed, and
   no item after the one that fully satisfied the need is modified. *)
C16_FirstFitInOrder ==
    ac_pc = "ret" =>
        LET used == ac_ret.used_details
            box_cons == Consumed(ac_args.box_list, used, "box")
            main_cons == Consumed(ac_args.main_list, used, "main")
        IN  /\ FirstFitIn(ac_args.box_list, ac_ret.box_list, used, "box", ac_args.category)
            /\ FirstFitIn(ac_args.main_list, ac_ret.main_list, used, "main",
                          ac_args.category)
            /\ Cardinality({i \in box_cons : ac_ret.box_list[i].servings_available # 0})
                 + Cardinality({i \in main_cons :
                                   ac_ret.main_list[i].servings_available # 0}) <= 1
            /\ (ac_ret.needed_left = 0 /\ used # <<>>) =>
                  LET last == used[Len(used)]
                  IN  IF last.from = "box"
                      THEN /\ \A i \in 1..Len(ac_args.box_list) :
                                 i > PositionOf(ac_args.box_list, last)
                                     => ac_ret.box_list[i] = ac_args.box_list[i]
                           /\ ac_ret.main_list = ac_args.main_list
                      ELSE \A i \in 1..Len(ac_args.main_list) :
                                 i > PositionOf(ac_args.main_list, last)
                                     => ac_ret.main_list[i] = ac_args.main_list[i]

\* the first box item drained, the second left partially consumed, and a main
\* item of the category with servings to give left alone
C16_Witness ==
    /\ ac_pc = "ret"
    /\ Len(ac_args.box_list) = 2
    /\ ac_args.box_list[1].category = ac_args.category
    /\ ac_args.box_list[1].servings_available = ONE
    /\ ac_ret.box_list[1].servings_available = 0
    /\ ac_args.box_list[2].category = ac_args.category
    /\ ac_args.box_list[2].servings_available = 2 * ONE
    /\ ac_ret.box_list[2].servings_available = ONE
    /\ Len(ac_args.main_list) >= 1
    /\ ac_args.main_list[1].category = ac_args.category
    /\ ac_args.main_list[1].servings_available > 0
    /\ ac_ret.main_list = ac_args.main_list

(***************************************************************************)
(* Properties of generate_monthly_plan and of the route                    *)
(***************************************************************************)
\* the day loop has emitted at least one day and sits between two days
BetweenDays == pc \in {"day", "return"} /\ day_plans # <<>>

\* day d of the running call was recorded as a shortage day
IsShortageDay(d) == \E j \in 1..Len(day_shortages) : day_shortages[j].day_number = d

(* C4: after a day marked as a shortage day, the box list and the main list
   are identical, item by item and in the same order, to what they were when
   that day began. *)
C4_ShortageDayRestoresLists ==
    (BetweenDays /\ IsShortageDay(Len(day_plans)))
        => /\ box_list = backup_box
           /\ main_list = backup_main

\* a day rolled back after breakfast had been served and lunch ran short,
\* following at least one successful day
C4_Witness ==
    /\ BetweenDays
    /\ IsShortageDay(Len(day_plans))
    /\ ~IsShortageDay(1)
    /\ meal_idx = 3

(* C5: the plan returned by generate_monthly_plan has exactly 30 day entries,
   numbered 1, 2, ..., 30 in that order, shortage days included. *)
C5_ThirtyDayEntries ==
    outcome.kind = "returned"
        => /\ Len(outcome.value.final_daily_plan) = 30
           /\ \A i \in 1..Len(outcome.value.final_daily_plan) :
                 outcome.value.final_daily_plan[i].day_number = i

\* a returned plan with successful days followed by shortage days
C5_Witness ==
    /\ outcome.kind = "returned"
    /\ outcome.value.final_daily_plan[1].meals # <<>>
    /\ outcome.value.final_daily_plan[30].meals = <<>>

(* C6 as stated: every shortage day is emitted as {day_number, meals: empty,
   shortage: true} without usage summaries, every other day with its meals and
   both usage summaries. *)
C6_ShortageDayCarriesFlag ==
    \A d \in 1..Len(day_plans) :
        IF IsShortageDay(d)
        THEN /\ day_plans[d].meals = <<>>
             /\ "shortage" \in DOMAIN day_plans[d]
             /\ day_plans[d].shortage = TRUE
             /\ "day_box_usage" \notin DOMAIN day_plans[d]
             /\ "day_main_usage" \notin DOMAIN day_plans[d]
        ELSE /\ Len(day_plans[d].meals) = Len(MEAL_ORDER)
             /\ {"day_box_usage", "day_main_usage"} \subseteq DOMAIN day_plans[d]

(* C6 as amended: every shortage day is emitted as exactly {day_number, meals:
   empty}, with no usage summary and no shortage field (the shortage is
   recorded in day_shortages only); every other day is emitted with its three
   meals and both usage summaries. *)
C6_DayPlanShape ==
    \A d \in 1..Len(day_plans) :
        /\ day_plans[d].day_number = d
        /\ IF IsShortageDay(d)
           THEN /\ DOMAIN day_plans[d] = {"day_number", "meals"}
                /\ day_plans[d].meals = <<>>
           ELSE /\ DOMAIN day_plans[d] =
                      {"day_number", "meals", "day_box_usage", "day_main_usage"}
                /\ Len(day_plans[d].meals) = Len(MEAL_ORDER)
                /\ \A m \in 1..Len(day_plans[d].meals) :
                      day_plans[d].meals[m].used_items # <<>>

\* a shortage day that had served breakfast, emitted after a successful day
C6_Witness ==
    /\ BetweenDays
    /\ Len(day_plans) >= 2
    /\ ~IsShortageDay(1)
    /\ IsShortageDay(Len(day_plans))
    /\ meal_idx >= 3

RECURSIVE EmptyMealDays(_, _)
\* the day_numbers of the entries from position i on whose meals list is empty
EmptyMealDays(plan, i) ==
    IF i > Len(plan) THEN <<>>
    ELSE (IF plan[i].meals = <<>> THEN <<plan[i].day_number>> ELSE <<>>)
         \o EmptyMealDays(plan, i + 1)

(* C7: in the returned plan all_shortages is empty exactly when no day is a
   shortage day; otherwise it holds one report whose details list the
   day_numbers of the days with an empty meals list, once each, ascending. *)
C7_ShortageReport ==
    outcome.kind = "returned" =>
        LET plan == outcome.value
            short_days == EmptyMealDays(plan.final_daily_plan, 1)
        IN  IF short_days = <<>>
            THEN plan.all_shortages = <<>>
            ELSE /\ Len(plan.all_shortages) = 1
                 /\ plan.all_shortages[1].type = "meal_plan_shortage"
                 /\ [j \in 1..Len(plan.all_shortages[1].details) |->
                        plan.all_shortages[1].details[j].day_number] = short_days

\* a returned plan whose report lists some days but not all
C7_Witness ==
    /\ outcome.kind = "returned"
    /\ Len(outcome.value.all_shortages) = 1
    /\ Len(outcome.value.all_shortages[1].details) \in 2..29

\* a plan without any shortage, the other half of C7
C7_WitnessNoShortage ==
    /\ outcome.kind = "returned"
    /\ outcome.value.all_shortages = <<>>

InDayLoop == pc \in {"day", "meal", "day_end", "return"}

(* C8: for the integer month of the running call, cycle_month is
   ((month - 1) mod 3) + 1, lies in {1, 2, 3}, and month + 3 selects the same
   sheet, the one whose rows the call loaded. *)
C8_CycleMonth ==
    InDayLoop =>
        /\ cyc = ((month.val - 1) % 3) + 1
        /\ cyc \in {1, 2, 3}
        /\ get_cycle_month(month.val + 3) = cyc
        /\ sheet_name_of(get_cycle_month(month.val + 3)) = sheet_name_of(cyc)
        /\ box_original = box_sheets[sheet_name_of(get_cycle_month(month.val + 3))]

\* month 0, where (month - 1) is negative, selecting the third-month sheet
C8_Witness ==
    /\ InDayLoop
    /\ month.val = 0
    /\ cyc = 3

(* C9: when the request just answered asked for the same month as the one
   answered before it, the two responses are identical. *)
C9_SameMonthSameResponse ==
    (pc = "idle" /\ prev_response # NoResponse
       /\ get_month(prev_request) = get_month(request))
        => response = prev_response

\* two plans in a row for one month, each with days served and days short
C9_Witness ==
    /\ pc = "idle"
    /\ prev_response # NoResponse
    /\ get_month(prev_request) = get_month(request)
    /\ response.status = 200
    /\ prev_response.status = 200
    /\ Len(response.body.all_shortages) = 1
    /\ response.body.final_daily_plan[1].meals # <<>>

(* C10: the route answers 200 with the plan generate_monthly_plan returned,
   unchanged, and 500 with a body holding only the exception's message under
   "error" when the call raised. *)
C10_EndpointStatus ==
    (pc = "idle" /\ outcome.kind # "none") =>
        IF outcome.kind = "returned"
        THEN response.status = 200 /\ response.body = outcome.value
        ELSE /\ response.status = 500
             /\ DOMAIN response.body = {"error"}
             /\ response.body.error = outcome.message

\* a failed call answered right after a successful one
C10_Witness ==
    /\ pc = "idle"
    /\ outcome.kind = "raised"
    /\ response.status = 500
    /\ prev_response.status = 200

(***************************************************************************)
(* Properties of the loaders                                               *)
(***************************************************************************)
\* the row names an item absent from the reference table, or one whose raw
\* category the category map does not hold
UnknownRow(row) ==
    \/ strip_lower(row.item_name) \notin DOMAIN load_food_reference
    \/ CATEGORY_MAP(load_food_reference[strip_lower(row.item_name)].raw_category) = ""

KnownRow(row) == ~UnknownRow(row)

ItemNames(items) == [i \in 1..Len(items) |-> items[i].item_name]

\* the box sheet the running call reads
BoxRows == box_sheets[sheet_name_of(cyc)]

UnknownNames == {BoxRows[i].item_name : i \in {j \in 1..Len(BoxRows) : UnknownRow(BoxRows[j])}}
                  \cup {main_sheet[i].item_name :
                            i \in {j \in 1..Len(main_sheet) : UnknownRow(main_sheet[j])}}

\* every usage record and usage summary entry of the days emitted so far and
\* of the day being served
RecordNames ==
    UNION { UNION { {day_plans[d].meals[m].used_items[k].item_name :
                        k \in 1..Len(day_plans[d].meals[m].used_items)} :
                    m \in 1..Len(day_plans[d].meals) } : d \in 1..Len(day_plans) }
    \cup UNION { IF "day_box_usage" \in DOMAIN day_plans[d]
                 THEN {day_plans[d].day_box_usage[k].item_name :
                          k \in 1..Len(day_plans[d].day_box_usage)}
                      \cup {day_plans[d].day_main_usage[k].item_name :
                          k \in 1..Len(day_plans[d].day_main_usage)}
                 ELSE {} : d \in 1..Len(day_plans) }
    \cup UNION { {day_meals[m].used_items[k].item_name :
                     k \in 1..Len(day_meals[m].used_items)} : m \in 1..Len(day_meals) }

(* C11: the rows of the box sheet and of the inventory sheet whose item name
   is absent from the reference table, or whose raw category is not in the
   category map, are left out of the item lists (which hold the other rows in
   sheet order), never appear in a usage record or a usage summary, and do
   not make the call raise: with readable files and an integer month the
   call returns a plan. *)
C11_UnknownRowsSkipped ==
    /\ InDayLoop =>
          /\ ItemNames(box_list) = ItemNames(SelectSeq(BoxRows, KnownRow))
          /\ ItemNames(main_list) = ItemNames(SelectSeq(main_sheet, KnownRow))
          /\ RecordNames \cap UnknownNames = {}
    /\ outcome.kind = "raised" => (src_fault # "none" \/ ~month.num)

\* a plan returned with days served, from sheets holding an item the
\* reference does not know and one of an unrecognised category
C11_Witness ==
    /\ outcome.kind = "returned"
    /\ pc = "respond"
    /\ \E i \in 1..Len(BoxRows) :
          strip_lower(BoxRows[i].item_name) \notin DOMAIN load_food_reference
    /\ \E i \in 1..Len(BoxRows) :
          /\ strip_lower(BoxRows[i].item_name) \in DOMAIN load_food_reference
          /\ UnknownRow(BoxRows[i])
    /\ \E i \in 1..Len(main_sheet) : UnknownRow(main_sheet[i])
    /\ outcome.value.final_daily_plan[1].meals # <<>>

(***************************************************************************)
(* Properties of one day                                                   *)
(***************************************************************************)
InDay == pc \in {"meal", "day_end"}

MealPlanOf(j) ==
    CASE j = 1 -> MEALS.BreakfastPlan [] j = 2 -> MEALS.LunchPlan [] j = 3 -> MEALS.DinnerPlan

RECURSIVE AfterMeals(_, _, _)
\* the two lists after the first j meals of the day, served from box and main
AfterMeals(box, main, j) ==
    IF j = 0 THEN [box_list |-> box, main_list |-> main]
    ELSE LET before == AfterMeals(box, main, j - 1)
         IN  allocate_meal(before.box_list, before.main_list, MealPlanOf(j))

RECURSIVE MealsServed(_, _, _, _)
\* what allocate_meal returns for meals j, ..., n of the day, each served from
\* the lists the one before it left
MealsServed(box, main, j, n) ==
    IF j > n THEN <<>>
    ELSE LET r == allocate_meal(box, main, MealPlanOf(j))
         IN  <<r>> \o MealsServed(r.box_list, r.main_list, j + 1, n)

(* C12: within a day the meals are allocated in the order Breakfast, Lunch,
   Dinner, and once a meal is short no later meal of the day is allocated:
   every meal allocated before the last one was not short, the day loop is
   left before Dinner only on a short meal, and the lists hold what the
   allocated meals left, nothing of a later meal. *)
C12_MealsInOrderUntilShort ==
    InDay =>
        LET n == Len(day_meals)
            served == MealsServed(backup_box, backup_main, 1, n)
        IN  /\ n <= 3
            /\ [j \in 1..n |-> day_meals[j].meal_time]
                  = SubSeq(<<"Breakfast", "Lunch", "Dinner">>, 1, n)
            /\ \A j \in 1..(n - 1) : ~served[j].shortage_any
            /\ pc = "meal" => (~shortage_for_day /\ \A j \in 1..n : ~served[j].shortage_any)
            /\ (pc = "day_end" /\ n < 3) => (shortage_for_day /\ served[n].shortage_any)
            /\ n = 0 => (box_list = backup_box /\ main_list = backup_main)
            /\ n > 0 => (box_list = served[n].box_list /\ main_list = served[n].main_list)

\* a day left at a short Breakfast, after earlier days were served: Lunch and
\* Dinner would have consumed from the lists, and did not
C12_Witness ==
    /\ pc = "day_end"
    /\ day_num > 1
    /\ shortage_for_day
    /\ Len(day_meals) = 1
    /\ LET later == AfterMeals(backup_box, backup_main, 3)
       IN  later.box_list # box_list \/ later.main_list # main_list

\* the day's requirement per category, summed over the three meals
DailyTemplate == [fruit_veg |-> 5, cereal |-> 4, oil |-> 3, dairy |-> 2, protein |-> 1]

\* some category's start-of-day total over box and main, summed exactly,
\* is below the day's requirement
InsufficientAtDayStart ==
    \E c \in Categories :
        SumServings(backup_box, c) + SumServings(backup_main, c) < DailyTemplate[c] * ONE

\* the same with the totals summed in floats, box items first
FloatInsufficientAtDayStart ==
    \E c \in Categories :
        FloatSumServings(backup_main, c, FloatSumServings(backup_box, c, 0))
            < DailyTemplate[c] * ONE

(* C13: a day is marked as a shortage day if and only if, for at least one
   category, the servings available in box plus main when the day began total
   less than the day's requirement for that category (fruit_veg 5, cereal 4,
   oil 3, dairy 2, protein 1).  The totals are taken whichever way agrees
   with the marking, exactly or as a float sum. *)
C13_ShortIffTotalsInsufficient ==
    pc = "day_end" =>
        \/ shortage_for_day = InsufficientAtDayStart
        \/ shortage_for_day = FloatInsufficientAtDayStart

\* the servings_used of the records of one category, in order
UsedOfCategory(used, c) ==
    LET of_c(u) == u.category = c
        recs == SelectSeq(used, of_c)
    IN  [k \in 1..Len(recs) |-> [servings_used |-> recs[k].servings_used]]

\* servings sum to total, added up exactly or in floats in the order given
SumsTo(used, total) == SumUsed(used) = total \/ FloatSumUsed(used, 0) = total

\* the category's servings over box and main dropped by total over the day,
\* the two totals taken exactly or in floats
DroppedBy(c, total) ==
    \/ (SumServings(backup_box, c) + SumServings(backup_main, c))
          - (SumServings(box_list, c) + SumServings(main_list, c)) = total
    \/ fsub(FloatSumServings(backup_main, c, FloatSumServings(backup_box, c, 0)),
            FloatSumServings(main_list, c, FloatSumServings(box_list, c, 0))) = total

(* C14: every non-shortage day consumes exactly the daily template: for each
   category the servings_used of the day's usage records, and likewise of the
   entries of day_box_usage plus day_main_usage, sum to 5 fruit_veg, 4 cereal,
   3 oil, 2 dairy, 1 protein, and the category's servings over box and main
   drop by that amount over the day.  Each sum counts as equal when it is so
   either exactly or added up in floats. *)
C14_DayConsumesTemplate ==
    (pc = "day_end" /\ ~shortage_for_day) =>
        \A c \in Categories :
            /\ SumsTo(UsedOfCategory(all_used_items(day_meals), c), DailyTemplate[c] * ONE)
            /\ SumsTo(UsedOfCategory(summarize_day_usage(day_meals).day_box_usage
                                       \o summarize_day_usage(day_meals).day_main_usage, c),
                      DailyTemplate[c] * ONE)
            /\ DroppedBy(c, DailyTemplate[c] * ONE)

(* C15: the shortage days are a suffix of the month: a day that follows a
   shortage day is a shortage day too, and it begins from the very lists the
   shortage day began from (its start-of-day copies equal those of the day
   before). *)
C15_ShortageSuffix ==
    /\ [](\A d \in 1..(Len(day_plans) - 1) : IsShortageDay(d) => IsShortageDay(d + 1))
    /\ [][(pc = "day" /\ pc' = "meal" /\ IsShortageDay(day_num - 1))
             => (backup_box' = backup_box /\ backup_main' = backup_main)]_vars

\* served days, then a shortage day, then another one that again served
\* Breakfast before it ran short
C15_Witness ==
    /\ BetweenDays
    /\ Len(day_plans) >= 3
    /\ ~IsShortageDay(1)
    /\ IsShortageDay(Len(day_plans) - 1)
    /\ IsShortageDay(Len(day_plans))
    /\ meal_idx >= 3

(***************************************************************************)
(* Properties of the usage summaries                                       *)
(***************************************************************************)
KeyOf(r) == <<r.item_name, r.category>>

RECURSIVE KeysInOrder(_, _)
\* the distinct (item_name, category) pairs of the records, each at its first
\* appearance
KeysInOrder(records, seen) ==
    IF records = <<>> THEN <<>>
    ELSE IF KeyOf(Head(records)) \in seen
         THEN KeysInOrder(Tail(records), seen)
         ELSE <<KeyOf(Head(records))>>
                  \o KeysInOrder(Tail(records), seen \cup {KeyOf(Head(records))})

\* the summary is the grouping of the records of one source
SummaryOf(summary, records, src) ==
    LET recs == SelectSeq(records, LAMBDA u : u.from = src)
    IN  /\ [k \in 1..Len(summary) |-> KeyOf(summary[k])] = KeysInOrder(recs, {})
        /\ \A k \in 1..Len(summary) :
              /\ DOMAIN summary[k] = {"item_name", "category", "servings_used"}
              /\ summary[k].servings_used =
                    FloatSumUsed(SelectSeq(recs, LAMBDA u : KeyOf(u) = KeyOf(summary[k])), 0)

(* C17: for every non-shortage day of a returned plan, day_box_usage holds
   exactly one entry per distinct (item_name, category) pair among the day's
   usage records from the box, in order of first appearance, whose
   servings_used is the sum of those records over the three meals (added up
   in floats in record order); day_main_usage is the same over the records
   from main; and every record belongs to exactly one of the two sources. *)
C17_UsageSummaries ==
    outcome.kind = "returned" =>
        \A d \in 1..Len(outcome.value.final_daily_plan) :
            LET day == outcome.value.final_daily_plan[d]
                records == all_used_items(day.meals)
            IN  day.meals # <<>> =>
                    /\ SummaryOf(day.day_box_usage, records, "box")
                    /\ SummaryOf(day.day_main_usage, records, "main")
                    /\ \A k \in 1..Len(records) : records[k].from \in {"box", "main"}

\* a plan whose first day took one box item and one main item at more than
\* one meal each, and an item of the same name and category from both
C17_Witness ==
    /\ outcome.kind = "returned"
    /\ LET day == outcome.value.final_daily_plan[1]
           records == all_used_items(day.meals)
       IN  /\ day.meals # <<>>
           /\ Len(SelectSeq(records, LAMBDA u : u.from = "box")) > Len(day.day_box_usage)
           /\ Len(SelectSeq(records, LAMBDA u : u.from = "main")) > Len(day.day_main_usage)
           /\ \E i \in 1..Len(day.day_box_usage), j \in 1..Len(day.day_main_usage) :
                 KeyOf(day.day_box_usage[i]) = KeyOf(day.day_main_usage[j])

(***************************************************************************)
(* Properties of the servings held by the items                            *)
(***************************************************************************)
\* from one list to the later one no item gains servings, and an item that
\* held no negative amount holds none after
NonIncreasing(before, after) ==
    /\ Len(after) = Len(before)
    /\ \A i \in 1..Len(before) :
          /\ after[i].servings_available <= before[i].servings_available
          /\ before[i].servings_available >= 0 => after[i].servings_available >= 0

\* the items of the other categories are as they were
OthersUnchanged(before, after, category) ==
    \A i \in 1..Len(before) : before[i].category # category => after[i] = before[i]

RECURSIVE CallChain(_, _, _, _)
\* the lists before each allocate_category call of a meal and after the last
\* one: entry k holds the lists call k is made on (a category that needs
\* nothing makes no call and leaves them as they are)
CallChain(box, main, plan, k) ==
    IF k > Len(plan) THEN <<[box_list |-> box, main_list |-> main]>>
    ELSE LET r == IF plan[k].needed <= 0
                  THEN [box_list |-> box, main_list |-> main]
                  ELSE allocate_category(box, main, plan[k].cat, plan[k].needed)
         IN  <<[box_list |-> box, main_list |-> main]>>
                 \o CallChain(r.box_list, r.main_list, plan, k + 1)

(* C18: during a day's allocation the servings_available of every item never
   increases and, for an item that began the day non-negative, never drops
   below 0: this holds from the start of the day to every point of it and
   across each allocate_category call of each meal; and such a call leaves
   the items of the categories it was not called for unchanged. *)
C18_ServingsNonIncreasing ==
    /\ InDay => /\ NonIncreasing(backup_box, box_list)
                /\ NonIncreasing(backup_main, main_list)
    /\ pc = "meal" =>
          LET plan == MEALS[MEAL_ORDER[meal_idx]]
              chain == CallChain(box_list, main_list, plan, 1)
              meal == allocate_meal(box_list, main_list, plan)
          IN  /\ chain[Len(plan) + 1] =
                    [box_list |-> meal.box_list, main_list |-> meal.main_list]
              /\ \A k \in 1..Len(plan) :
                    /\ NonIncreasing(chain[k].box_list, chain[k + 1].box_list)
                    /\ NonIncreasing(chain[k].main_list, chain[k + 1].main_list)
                    /\ OthersUnchanged(chain[k].box_list, chain[k + 1].box_list,
                                       plan[k].cat)
                    /\ OthersUnchanged(chain[k].main_list, chain[k + 1].main_list,
                                       plan[k].cat)

\* within a day: a box item that began negative, an item drained to 0 and an
\* item partly consumed
C18_Witness ==
    /\ pc = "meal"
    /\ meal_idx > 1
    /\ \E i \in 1..Len(backup_box) : backup_box[i].servings_available < 0
    /\ \E i \in 1..Len(backup_box) :
          backup_box[i].servings_available > 0 /\ box_list[i].servings_available = 0
    /\ \E i \in 1..Len(backup_main) :
          /\ main_list[i].servings_available > 0
          /\ main_list[i].servings_available < backup_main[i].servings_available

(***************************************************************************)
(* Properties of allocate_meal                                             *)
(***************************************************************************)
\* the lists the meal allocated last was served from
BeforeLastMeal == AfterMeals(backup_box, backup_main, Len(day_meals) - 1)

\* allocate_category for each entry of a meal plan, called on the lists as
\* they were before the meal (the calls for the other categories do not touch
\* the items of this one)
CategoryCalls(before, plan) ==
    [k \in 1..Len(plan) |->
        allocate_category(before.box_list, before.main_list, plan[k].cat, plan[k].needed)]

RECURSIVE UsedByCategories(_, _, _)
\* the records of the calls for entries k, k + 1, ... of the plan, in that
\* order, whatever the calls before them reported
UsedByCategories(calls, plan, k) ==
    IF k > Len(plan) THEN <<>>
    ELSE (IF plan[k].needed > 0 THEN calls[k].used_details ELSE <<>>)
         \o UsedByCategories(calls, plan, k + 1)

\* the items of one category in a list
ItemsOf(items, c) == SelectSeq(items, LAMBDA it : it.category = c)

(* C19: allocate_meal does not stop at the first short category: the usage it
   returns is that of every category of the meal with needed > 0, in the
   mapping's order, also after a short one; the items of each such category
   are left as its allocation left them, nothing undone; and any_short is
   true exactly when at least one of these categories was short. *)
C19_MealAttemptsEveryCategory ==
    (InDay /\ day_meals # <<>>) =>
        LET plan == MealPlanOf(Len(day_meals))
            calls == CategoryCalls(BeforeLastMeal, plan)
        IN  /\ day_meals[Len(day_meals)].used_items = UsedByCategories(calls, plan, 1)
            /\ \A k \in 1..Len(plan) :
                  plan[k].needed > 0 =>
                      /\ ItemsOf(box_list, plan[k].cat)
                            = ItemsOf(calls[k].box_list, plan[k].cat)
                      /\ ItemsOf(main_list, plan[k].cat)
                            = ItemsOf(calls[k].main_list, plan[k].cat)
            /\ shortage_for_day =
                  (\E k \in 1..Len(plan) : plan[k].needed > 0 /\ calls[k].shortage_flag)

\* a Lunch short of fruit_veg, its first category, that went on to take
\* cereal, protein and oil, and left them taken
C19_Witness ==
    /\ pc = "day_end"
    /\ Len(day_meals) = 2
    /\ LET before == BeforeLastMeal
           calls == CategoryCalls(before, MealPlanOf(2))
       IN  /\ calls[1].shortage_flag
           /\ calls[1].used_details # <<>>
           /\ \A c \in {"cereal", "protein", "oil"} :
                 /\ \E k \in 1..Len(day_meals[2].used_items) :
                       day_meals[2].used_items[k].category = c
                 /\ ItemsOf(main_list, c) # ItemsOf(before.main_list, c)

(***************************************************************************)
(* Properties of the quantities read                                       *)
(***************************************************************************)
\* the items were built from the rows with a negative quantity read as zero
BuiltWithNegativeAsZero(items, rows) ==
    LET known == SelectSeq(rows, KnownRow)
    IN  \A i \in 1..Len(items) :
            /\ items[i].servings_available >= 0
            /\ to_numeric_fillna(known[i].quantity, 0) < 0
                  => items[i].servings_available = 0

(* C20: a box or main row with a negative quantity is treated as quantity
   zero: the item built from it has servings_available 0, so no item of the
   lists the loaders return starts with a negative servings_available. *)
C20_NegativeQuantityIsZero ==
    (pc = "day" /\ day_num = 1) =>
        /\ BuiltWithNegativeAsZero(box_list, BoxRows)
        /\ BuiltWithNegativeAsZero(main_list, main_sheet)

====
